---- MODULE Spec2Model ----
(***************************************************************************)
(* A model of src/config.js: getConfig (acquisition of the raw            *)
(* configuration text, by external command or from a file pair) and       *)
(* parseConfig (schema validation and shorthand normalisation).           *)
(*                                                                         *)
(* JavaScript values are tagged records [type, val].  A string is a       *)
(* sequence of tokens (its val), so that concatenation, indexOf,          *)
(* substring and startsWith are computed and not looked up.               *)
(***************************************************************************)
EXTENDS Naturals, Sequences, FiniteSets, TLC

VARIABLES
  pc,          \* getConfig: position in the function
  ENV,         \* the ./environment module's object (CONFIG_TEMPLATE_ARGS, CONFIG_PATH)
  procEnv,     \* process.env.CONFIG_PATH
  fs,          \* the file system: file name -> content or error code
  args,        \* const args = argsparse(...), an ordered key/value list
  cmd,         \* const cmd = args._[0]
  cmdArgs,     \* the rebuilt argument vector
  configDeps,  \* the Set configDeps, in insertion order
  curPath,     \* FileMode: path.join(dir, name)
  conf,        \* FileMode: let conf
  reads,       \* the files fs.readFile was called on, in order
  execs,       \* the execFile calls that spawned a process, in order
  result,      \* the value getConfig resolves to
  err,         \* the error getConfig rejects with
  pPc,         \* parseConfig: position in the function
  pData,       \* curData = YAML.parse(conf)
  pValue,      \* the validated document (value), mapped item by item
  pIdx,        \* the next item value.map visits
  pErr         \* the error parseConfig throws

vars == <<pc, ENV, procEnv, fs, args, cmd, cmdArgs, configDeps, curPath, conf,
          reads, execs, result, err, pPc, pData, pValue, pIdx, pErr>>

acqVars == <<pc, ENV, procEnv, fs, args, cmd, cmdArgs, configDeps, curPath, conf,
             reads, execs, result, err>>

parseVars == <<pPc, pData, pValue, pIdx, pErr>>

(***************************************************************************)
(* Bounds of the model.                                                    *)
(***************************************************************************)
\* the largest number of flags in a parsed CONFIG_TEMPLATE_ARGS
MaxFlags == 2
\* the largest number of entries in a list of a configuration item
MaxList == 2

(***************************************************************************)
(* JavaScript values.                                                      *)
(***************************************************************************)
Str(toks) == [type |-> "string", val |-> toks]
Arr(elems) == [type |-> "array", val |-> elems]
Obj(rec) == [type |-> "object", val |-> rec]
Bool(b) == [type |-> "boolean", val |-> b]
Undefined == [type |-> "undefined", val |-> <<>>]
Null == [type |-> "null", val |-> <<>>]
\* the number 0, which yargs-parser yields for the token 0 (numbers are coerced)
Num0 == [type |-> "number", val |-> <<"0">>]

\* JavaScript's ToBoolean, as applied by `if (x)`
Truthy(v) ==
  CASE v.type = "undefined" -> FALSE
    [] v.type = "null" -> FALSE
    [] v.type = "string" -> v.val # <<>>
    [] v.type = "number" -> v.val # <<"0">>
    [] v.type = "boolean" -> v.val
    [] OTHER -> TRUE

Range(s) == {s[i] : i \in 1..Len(s)}

\* String.prototype.indexOf for a one-token needle, 0-based, -1 as 0 of a 1-based index
IndexOf1(toks, t) ==
  IF \E i \in 1..Len(toks) : toks[i] = t
    THEN CHOOSE i \in 1..Len(toks) : toks[i] = t /\ \A j \in 1..(i - 1) : toks[j] # t
    ELSE 0

LastIndexOf1(toks, t) ==
  IF \E i \in 1..Len(toks) : toks[i] = t
    THEN CHOOSE i \in 1..Len(toks) : toks[i] = t /\ \A j \in (i + 1)..Len(toks) : toks[j] # t
    ELSE 0

StartsWith(toks, prefix) ==
  /\ Len(toks) >= Len(prefix)
  /\ SubSeq(toks, 1, Len(prefix)) = prefix

(***************************************************************************)
(* Library functions the code calls: the WHATWG URL parser (new URL),     *)
(* Joi's string().uri() (RFC 3986), path.parse and path.join.             *)
(***************************************************************************)
SchemeToks == {"file", "x", "https"}
HostToks == {"example.com", "h"}

\* the tokens of a URL string after its scheme and ':'
UrlRest(toks) == SubSeq(toks, IndexOf1(toks, ":") + 1, Len(toks))

\* new URL(s) does not throw: s has a scheme, and a host where the scheme needs one
UrlParses(toks) ==
  LET colon == IndexOf1(toks, ":") IN
  /\ colon >= 2
  /\ \A i \in 1..(colon - 1) : toks[i] \in SchemeToks
  /\ SubSeq(toks, 1, colon - 1) = <<"https">> =>
       /\ Len(toks) >= colon + 2
       /\ toks[colon + 1] = "//"
       /\ toks[colon + 2] \in HostToks

\* URL.protocol: the scheme with its ':'
UrlProtocol(toks) == SubSeq(toks, 1, IndexOf1(toks, ":"))

\* URL.pathname: what follows the authority, percent-encoded
UrlPathname(toks) ==
  LET rest == UrlRest(toks)
      path == IF Len(rest) >= 1 /\ rest[1] = "//"
                THEN IF Len(rest) >= 2 /\ rest[2] \in HostToks
                       THEN SubSeq(rest, 3, Len(rest))
                       ELSE SubSeq(rest, 2, Len(rest))
                ELSE rest
  IN [i \in 1..Len(path) |-> IF path[i] = " " THEN "%20" ELSE path[i]]

\* Joi.string().uri(): an RFC 3986 URI, in which a space is no legal character
JoiUri(toks) ==
  LET colon == IndexOf1(toks, ":") IN
  /\ colon >= 2
  /\ \A i \in 1..(colon - 1) : toks[i] \in SchemeToks
  /\ Len(toks) > colon
  /\ \A i \in 1..Len(toks) : toks[i] # " "

\* path.parse(p): { dir, name }, the base name without its last extension
PathParse(toks) ==
  LET slash == LastIndexOf1(toks, "/")
      base == SubSeq(toks, slash + 1, Len(toks))
      dot == LastIndexOf1(base, ".")
  IN [dir |-> IF slash = 0 THEN <<>>
                ELSE IF slash = 1 THEN <<"/">>
                ELSE SubSeq(toks, 1, slash - 1),
      name |-> IF dot > 1 THEN SubSeq(base, 1, dot - 1) ELSE base]

\* path.join(dir, name)
PathJoin(dir, name) ==
  IF dir = <<>> THEN name
  ELSE IF dir = <<"/">> THEN <<"/">> \o name
  ELSE dir \o <<"/">> \o name

(***************************************************************************)
(* getPathFromArg and the reduce of getConfig.                             *)
(***************************************************************************)
Thrown(e) == [throws |-> e, ret |-> Null]
Returned(v) == [throws |-> "none", ret |-> v]

\* the protocol test of getPathFromArg and mapDataSource
startsWithFile(protocol) == StartsWith(protocol, <<"file">>)

getPathFromArg(arg, v) ==
  IF arg \in {"t", "f"} THEN Returned(v)
  ELSE IF arg = "d" THEN
    IF v.type # "string" THEN Thrown("TypeError: v.substring is not a function")
    ELSE LET sub == SubSeq(v.val, IndexOf1(v.val, "=") + 1, Len(v.val)) IN
         IF ~UrlParses(sub) THEN Thrown("TypeError: Invalid URL")
         ELSE IF ~startsWithFile(UrlProtocol(sub)) THEN Returned(Null)
         ELSE Returned(Str(UrlPathname(sub)))
  ELSE Returned(Null)

\* Set.prototype.add on a set kept in insertion order
SetAdd(set, v) == IF v \in Range(set) THEN set ELSE Append(set, v)

\* the body run for one value v of flag k, on the accumulator acc
PushArg(acc, k, v) ==
  IF acc.throws # "none" THEN acc
  ELSE LET depPath == getPathFromArg(k, v) IN
       IF depPath.throws # "none" THEN [acc EXCEPT !.throws = depPath.throws]
       ELSE [throws |-> "none",
             arr |-> acc.arr \o <<Str(<<"-", k>>), v>>,
             deps |-> IF Truthy(depPath.ret) THEN SetAdd(acc.deps, depPath.ret)
                      ELSE acc.deps]

RECURSIVE PushEach(_, _, _)
\* curVal.forEach(v => ...)
PushEach(acc, k, vals) ==
  IF vals = <<>> THEN acc
  ELSE PushEach(PushArg(acc, k, Head(vals)), k, Tail(vals))

RECURSIVE ReduceArgs(_, _)
\* Object.keys(args).reduce(..., []) over the ordered entries of args
ReduceArgs(acc, entries) ==
  IF entries = <<>> THEN acc
  ELSE LET e == Head(entries)
           next == IF e.v.type = "array" THEN PushEach(acc, e.k, e.v.val)
                   ELSE PushArg(acc, e.k, e.v)
       IN ReduceArgs(next, Tail(entries))

\* args[k], undefined when args has no key k
ArgsGet(a, k) ==
  IF \E i \in 1..Len(a) : a[i].k = k
    THEN a[CHOOSE i \in 1..Len(a) : a[i].k = k].v
    ELSE Undefined

\* delete args[k]
ArgsDelete(a, k) == SelectSeq(a, LAMBDA e : e.k # k)

(***************************************************************************)
(* The inputs of getConfig.                                                *)
(***************************************************************************)
\* flag values yargs-parser can yield: strings, the number 0, true (a flag
\* given without a value) and arrays (a repeated flag)
VTmpl == Str(<<"tmpl.tpl">>)
VData == Str(<<"/data/x.json">>)
VDFile == Str(<<"alias", "=", "file", ":", "//", "/data/x.json">>)
VDRemote == Str(<<"alias2", "=", "https", ":", "//", "example.com", "/y">>)
VDRel == Str(<<"cfg", "=", "./rel.json">>)
VDFilex == Str(<<"a", "=", "file", "x", ":", "//", "h", "/p">>)

FlagKeys == {"t", "f", "d", "o"}

FlagVals ==
  {VTmpl, VData, VDFile, VDRemote, VDRel, VDFilex, Num0, Bool(TRUE),
   Arr(<<VDFile, VDRemote>>), Arr(<<VTmpl, VTmpl>>)}

FlagEntries == [k : FlagKeys, v : FlagVals]

\* the ordered flag entries of a parse: no key twice
FlagLists ==
  UNION {{fl \in [1..n -> FlagEntries] :
            \A i, j \in 1..n : i # j => fl[i].k # fl[j].k} : n \in 0..MaxFlags}

Positionals == {<<>>, <<Str(<<"gomplate">>)>>}

\* a CONFIG_TEMPLATE_ARGS string, held as the entries yargs-parser yields for
\* it: the positionals under "_", then the flags in the order given
TemplateArgs ==
  {Str(<<[k |-> "_", v |-> Arr(pos)]>> \o fl) : pos \in Positionals, fl \in FlagLists}

\* argsparse(ENV.CONFIG_TEMPLATE_ARGS)
argsparse(s) == s.val

PathEtcYml == <<"/etc", "/", "conf", ".", "yml">>
PathRelYaml == <<"conf", ".", "yaml">>
PathEtcBare == <<"/etc", "/", "conf">>
ConfigPaths == {PathEtcYml, PathRelYaml, PathEtcBare}

FileNames ==
  {<<"/etc", "/", "conf", ".", "yaml">>, <<"/etc", "/", "conf", ".", "yml">>,
   <<"conf", ".", "yaml">>, <<"conf", ".", "yml">>}

Contents == {<<"docA">>, <<"docB">>}

FileStates ==
  {[code |-> "ENOENT", data |-> <<>>], [code |-> "EACCES", data |-> <<>>]}
    \cup {[code |-> "ok", data |-> c] : c \in Contents}

\* fs.readFile(name, 'utf8')
readFile(name) ==
  IF name \in DOMAIN fs THEN fs[name] ELSE [code |-> "ENOENT", data |-> <<>>]

(***************************************************************************)
(* Errors getConfig rejects with.                                          *)
(***************************************************************************)
ErrConflict == "Use either CONFIG_PATH env or -f option of CONFIG_TEMPLATE_ARGS env but not both"
ErrValue == "ReferenceError: value is not defined"
ErrNoArgs == "CONFIG_TEMPLATE_ARGS env requires at least one argument"
ErrFileArg == "TypeError: The file argument must be of type string"
ErrExec == "execFile: spawn failure or non-zero exit"
ErrPathArg == "TypeError: The path argument must be of type string"

(***************************************************************************)
(* getConfig, step by step.                                                *)
(***************************************************************************)
Fail(e) ==
  /\ pc' = "Failed"
  /\ err' = e

\* line 111-112: CommandMode is entered and the string parsed
ParseArgs ==
  /\ pc = "Idle"
  /\ Truthy(ENV.CONFIG_TEMPLATE_ARGS)
  /\ args' = argsparse(ENV.CONFIG_TEMPLATE_ARGS)
  /\ pc' = "checkPath"
  /\ UNCHANGED <<ENV, procEnv, fs, cmd, cmdArgs, configDeps, curPath, conf,
                 reads, execs, result, err, parseVars>>

\* line 114-120: the conflict test, and the injection of CONFIG_PATH as -f
CheckConfigPath ==
  /\ pc = "checkPath"
  /\ IF Truthy(procEnv)
       THEN IF Truthy(ArgsGet(args, "f"))
              THEN Fail(ErrConflict) /\ UNCHANGED args
              \* line 119 reads `value`, which no scope of getConfig binds:
              \* evaluating it throws before args.f is assigned
              ELSE Fail(ErrValue) /\ UNCHANGED args
       ELSE pc' = "build" /\ UNCHANGED <<args, err>>
  /\ UNCHANGED <<ENV, procEnv, fs, cmd, cmdArgs, configDeps, curPath, conf,
                 reads, execs, result, parseVars>>

\* line 122-151: the command name, and the argument vector rebuilt
BuildArgs ==
  /\ pc = "build"
  /\ LET pos == ArgsGet(args, "_").val
         red == ReduceArgs([throws |-> "none", arr |-> <<>>, deps |-> <<>>],
                           ArgsDelete(args, "_"))
     IN /\ cmd' = IF pos = <<>> THEN Undefined ELSE pos[1]
        /\ args' = ArgsDelete(args, "_")
        /\ IF red.throws # "none"
             THEN Fail(red.throws) /\ UNCHANGED <<cmdArgs, configDeps>>
             ELSE /\ cmdArgs' = red.arr
                  /\ configDeps' = red.deps
                  /\ pc' = "checkArgs"
                  /\ UNCHANGED err
  /\ UNCHANGED <<ENV, procEnv, fs, curPath, conf, reads, execs, result, parseVars>>

\* CheckArgs without the test of the vector's length
CheckArgsAnyLength ==
  /\ pc = "checkArgs"
  /\ pc' = "exec"
  /\ UNCHANGED <<ENV, procEnv, fs, args, cmd, cmdArgs, configDeps, curPath, conf,
                 reads, execs, result, err, parseVars>>

\* line 153-155
CheckArgs ==
  /\ pc = "checkArgs"
  /\ IF Len(cmdArgs) = 0
       THEN Fail(ErrNoArgs)
       ELSE pc' = "exec" /\ UNCHANGED err
  /\ UNCHANGED <<ENV, procEnv, fs, args, cmd, cmdArgs, configDeps, curPath, conf,
                 reads, execs, result, parseVars>>

\* ExecCommand spawning whatever the command name is
ExecCommandAnyFile ==
  /\ pc = "exec"
  /\ execs' = Append(execs, [file |-> cmd, args |-> cmdArgs])
  /\ \/ \E stdout \in Contents :
          /\ result' = [config |-> stdout, configDeps |-> configDeps]
          /\ pc' = "Done"
          /\ UNCHANGED err
     \/ Fail(ErrExec) /\ UNCHANGED result
  /\ UNCHANGED <<ENV, procEnv, fs, args, cmd, cmdArgs, configDeps, curPath, conf,
                 reads, parseVars>>

\* line 157-162: execFile validates its file argument before it spawns; a
\* spawned command ends with some stdout, or fails
ExecCommand ==
  /\ pc = "exec"
  /\ IF cmd.type # "string"
       THEN Fail(ErrFileArg) /\ UNCHANGED <<execs, result>>
       ELSE /\ execs' = Append(execs, [file |-> cmd, args |-> cmdArgs])
            /\ \/ \E stdout \in Contents :
                    /\ result' = [config |-> stdout, configDeps |-> configDeps]
                    /\ pc' = "Done"
                    /\ UNCHANGED err
               \/ Fail(ErrExec) /\ UNCHANGED result
  /\ UNCHANGED <<ENV, procEnv, fs, args, cmd, cmdArgs, configDeps, curPath, conf,
                 reads, parseVars>>

\* line 163-167: FileMode is entered and the path split
ParsePath ==
  /\ pc = "Idle"
  /\ ~Truthy(ENV.CONFIG_TEMPLATE_ARGS)
  /\ IF ENV.CONFIG_PATH.type # "string"
       THEN Fail(ErrPathArg) /\ UNCHANGED curPath
       ELSE LET parsed == PathParse(ENV.CONFIG_PATH.val) IN
            /\ curPath' = PathJoin(parsed.dir, parsed.name)
            /\ pc' = "readYaml"
            /\ UNCHANGED err
  /\ UNCHANGED <<ENV, procEnv, fs, args, cmd, cmdArgs, configDeps, conf,
                 reads, execs, result, parseVars>>

\* line 169-175
ReadYaml ==
  /\ pc = "readYaml"
  /\ LET name == curPath \o <<".", "yaml">>
         got == readFile(name)
     IN /\ reads' = Append(reads, name)
        /\ IF got.code = "ok"
             THEN conf' = Str(got.data) /\ pc' = "readYml" /\ UNCHANGED err
             ELSE IF got.code # "ENOENT"
                    THEN Fail(got.code) /\ UNCHANGED conf
                    ELSE pc' = "readYml" /\ UNCHANGED <<conf, err>>
  /\ UNCHANGED <<ENV, procEnv, fs, args, cmd, cmdArgs, configDeps, curPath,
                 execs, result, parseVars>>

\* ReadYml reading the .yml file only when the .yaml read found nothing
ReadYmlUnlessYaml ==
  /\ pc = "readYml"
  /\ IF conf # Null
       THEN /\ result' = [config |-> conf.val, configDeps |-> <<Str(curPath)>>]
            /\ pc' = "Done"
            /\ UNCHANGED <<conf, reads, err>>
       ELSE LET name == curPath \o <<".", "yml">>
                got == readFile(name)
            IN /\ reads' = Append(reads, name)
               /\ IF got.code = "ok"
                    THEN /\ conf' = Str(got.data)
                         /\ result' = [config |-> got.data, configDeps |-> <<Str(curPath)>>]
                         /\ pc' = "Done"
                         /\ UNCHANGED err
                    ELSE Fail(got.code) /\ UNCHANGED <<conf, result>>
  /\ UNCHANGED <<ENV, procEnv, fs, args, cmd, cmdArgs, configDeps, curPath,
                 execs, parseVars>>

\* line 177-182
ReadYml ==
  /\ pc = "readYml"
  /\ LET name == curPath \o <<".", "yml">>
         got == readFile(name)
     IN /\ reads' = Append(reads, name)
        /\ IF got.code = "ok"
             THEN /\ conf' = Str(got.data)
                  /\ result' = [config |-> got.data, configDeps |-> <<Str(curPath)>>]
                  /\ pc' = "Done"
                  /\ UNCHANGED err
             ELSE Fail(got.code) /\ UNCHANGED <<conf, result>>
  /\ UNCHANGED <<ENV, procEnv, fs, args, cmd, cmdArgs, configDeps, curPath,
                 execs, parseVars>>

\* parseConfig has not been called
ParseIdle ==
  /\ pPc = "Idle"
  /\ pData = Undefined
  /\ pValue = <<>>
  /\ pIdx = 0
  /\ pErr = "none"

InitCommandMode ==
  /\ \E ta \in TemplateArgs, cp \in {Undefined} \cup {Str(p) : p \in {PathEtcYml, PathRelYaml}} :
       /\ ENV = [CONFIG_TEMPLATE_ARGS |-> ta, CONFIG_PATH |-> cp]
       /\ procEnv = cp
  /\ fs = [n \in FileNames |-> [code |-> "ok", data |-> <<"docA">>]]

InitFileMode ==
  /\ \E cp \in {Undefined} \cup {Str(p) : p \in ConfigPaths} :
       /\ ENV = [CONFIG_TEMPLATE_ARGS |-> Undefined, CONFIG_PATH |-> cp]
       /\ procEnv = cp
  /\ fs \in [FileNames -> FileStates]

Init ==
  /\ pc = "Idle"
  /\ InitCommandMode \/ InitFileMode
  /\ args = <<>>
  /\ cmd = Undefined
  /\ cmdArgs = <<>>
  /\ configDeps = <<>>
  /\ curPath = <<>>
  /\ conf = Null
  /\ reads = <<>>
  /\ execs = <<>>
  /\ result = [config |-> <<>>, configDeps |-> <<>>]
  /\ err = "none"
  /\ ParseIdle

Next ==
  \/ ParseArgs
  \/ CheckConfigPath
  \/ BuildArgs
  \/ CheckArgs
  \/ ExecCommand
  \/ ParsePath
  \/ ReadYaml
  \/ ReadYml

Spec == Init /\ [][Next]_vars

(***************************************************************************)
(* Properties of getConfig.                                                *)
(***************************************************************************)
CommandMode == Truthy(ENV.CONFIG_TEMPLATE_ARGS)
Terminal == pc \in {"Done", "Failed"}

\* the flags of the parsed CONFIG_TEMPLATE_ARGS, and its positionals
Flags0 == ArgsDelete(argsparse(ENV.CONFIG_TEMPLATE_ARGS), "_")
Positionals0 == ArgsGet(argsparse(ENV.CONFIG_TEMPLATE_ARGS), "_").val
HasFlag(k) == \E i \in 1..Len(Flags0) : Flags0[i].k = k

\* C1: CONFIG_TEMPLATE_ARGS set with an explicit f flag among its parsed flags
\* and CONFIG_PATH set: the run ends in Failed with the conflict error, no
\* file is read and no command executed.
C1_ConflictAlwaysDetected ==
  (CommandMode /\ HasFlag("f") /\ Truthy(procEnv) /\ Terminal) =>
    /\ pc = "Failed"
    /\ err = ErrConflict
    /\ reads = <<>>
    /\ execs = <<>>

\* `-f <value>` is a pair of the vector v
HasPair(v, k, val) ==
  \E i \in 1..(Len(v) - 1) : v[i] = Str(<<"-", k>>) /\ v[i + 1] = val

\* C2: CommandMode, CONFIG_PATH set and no f flag parsed: the run passes the
\* injection step, the vector handed to the command holds -f <CONFIG_PATH>,
\* and CONFIG_PATH is among the returned configDeps.
C2_ConfigPathInjected ==
  (CommandMode /\ ~HasFlag("f") /\ Truthy(procEnv) /\ Terminal) =>
    /\ pc = "Failed" => err \notin {ErrConflict, ErrValue}
    /\ execs # <<>> => HasPair(execs[1].args, "f", procEnv)
    /\ pc = "Done" => procEnv \in Range(result.configDeps)

\* a path ends in an extension
HasExt(p) == Len(p) >= 3 /\ p[Len(p) - 1] = "." /\ p[Len(p) - 2] # "/"
\* the path without its extension
ExtLess(p) == IF HasExt(p) THEN SubSeq(p, 1, Len(p) - 2) ELSE p

\* C3: FileMode reads <base>.yaml and then <base>.yml; a .yaml that is not
\* found fails nothing; a run that ends in Done returns the .yml content and
\* the one-element list of the extension-less path; a run with no .yml file
\* ends in Failed, also when the .yaml read succeeded.
C3_FileModeReturnsYml ==
  (~CommandMode /\ ENV.CONFIG_PATH.type = "string") =>
    LET base == ExtLess(ENV.CONFIG_PATH.val)
        yamlName == base \o <<".", "yaml">>
        ymlName == base \o <<".", "yml">>
    IN /\ pc = "Done" =>
            /\ readFile(ymlName).code = "ok"
            /\ result.config = readFile(ymlName).data
            /\ result.configDeps = <<Str(base)>>
       /\ (Terminal /\ readFile(ymlName).code = "ENOENT") => pc = "Failed"
       /\ (Terminal /\ readFile(yamlName).code = "ENOENT"
             /\ readFile(ymlName).code = "ok") => pc = "Done"
       /\ (Terminal /\ readFile(yamlName).code \in {"ok", "ENOENT"}) =>
            reads = <<yamlName, ymlName>>
       /\ reads # <<>> => reads[1] = yamlName

\* a run that read a .yaml file and returned the different content of the .yml file
C3_Witness ==
  /\ ~CommandMode
  /\ pc = "Done"
  /\ Len(reads) = 2
  /\ readFile(reads[1]).code = "ok"
  /\ readFile(reads[1]).data # result.config

\* C4: CommandMode with no positional token: the run ends in Failed with an
\* error and the command is never executed, whatever the flags.
C4_NoCommandFails ==
  (CommandMode /\ Positionals0 = <<>>) =>
    /\ execs = <<>>
    /\ pc # "Done"
    /\ Terminal => (pc = "Failed" /\ err # "none")

\* a run with flags and no positional token, which came as far as execFile
C4_Witness ==
  /\ CommandMode
  /\ Positionals0 = <<>>
  /\ Flags0 # <<>>
  /\ pc = "Failed"
  /\ err = ErrFileArg
  /\ cmdArgs # <<>>

\* the values of a flag entry, one for a scalar and each element for an array
ValuesOf(e) == IF e.v.type = "array" THEN Range(e.v.val) ELSE {e.v}

\* the part of a d value after its first '='
AfterEquals(v) == SubSeq(v.val, IndexOf1(v.val, "=") + 1, Len(v.val))

\* the dependency paths the flags name: t and f values literally, and for a d
\* value the path of the file URI after its first '='
ExpectedDeps ==
  UNION {IF e.k \in {"t", "f"} THEN ValuesOf(e)
         ELSE IF e.k = "d"
           THEN {Str(UrlPathname(AfterEquals(v))) :
                   v \in {w \in ValuesOf(e) :
                            /\ w.type = "string"
                            /\ UrlParses(AfterEquals(w))
                            /\ StartsWith(UrlProtocol(AfterEquals(w)), <<"file">>)}}
         ELSE {} : e \in Range(Flags0)}

\* C5: the returned configDeps is exactly the duplicate-free set of the t and
\* f values and of the paths of the file URIs of the d values; a d value that
\* is remote or is no URI contributes nothing (and fails nothing).
C5_DepsExactlyFromFlags ==
  (CommandMode /\ Terminal) =>
    /\ pc = "Done" =>
         /\ Range(result.configDeps) = ExpectedDeps
         /\ Len(result.configDeps) = Cardinality(ExpectedDeps)
    /\ pc = "Failed" =>
         err \notin {"TypeError: Invalid URL", "TypeError: v.substring is not a function"}

\* C10: the command is executed at most once, only in CommandMode and only
\* with a non-empty vector (an empty one ends the run in Failed before any
\* execution); CommandMode reads no file, FileMode executes no command.
C10_StrategiesExclusive ==
  /\ Len(execs) <= 1
  /\ execs # <<>> => (CommandMode /\ execs[1].args # <<>>)
  /\ CommandMode => reads = <<>>
  /\ ~CommandMode => execs = <<>>
  /\ (CommandMode /\ pc \in {"exec", "Done"}) => cmdArgs # <<>>
  /\ (CommandMode /\ Terminal /\ Flags0 = <<>>) => (pc = "Failed" /\ execs = <<>>)

\* a run whose command was executed, once, and returned
C10_Witness ==
  /\ pc = "Done"
  /\ Len(execs) = 1
  /\ execs[1].args = cmdArgs

(***************************************************************************)
(* parseConfig: the Joi schemas.  A JavaScript object is a record whose    *)
(* domain is the set of its keys.                                          *)
(***************************************************************************)
Has(o, k) == k \in DOMAIN o.val
Get(o, k) == IF Has(o, k) THEN o.val[k] ELSE Undefined
\* the object o with o[k] = v
With(o, k, v) == Obj([x \in DOMAIN o.val \cup {k} |-> IF x = k THEN v ELSE o.val[x]])
\* the object o without the keys outside keep (stripUnknown: { objects: true })
Strip(o, keep) == Obj([x \in DOMAIN o.val \cap keep |-> o.val[x]])

Valid(v) == [ok |-> TRUE, value |-> v]
Invalid == [ok |-> FALSE, value |-> Undefined]

\* the comparator checkUniqueField(field), with a string entry read as if it
\* had no field at all
checkUniqueFieldUnwrapped(field, v1, v2) ==
  LET f1 == IF v1.type = "string" THEN Undefined ELSE Get(v1, field)
      f2 == IF v2.type = "string" THEN Undefined ELSE Get(v2, field)
  IN f1 = f2 \/ f1 = f2

\* the comparator checkUniqueField(field) applied to v1 and v2
checkUniqueField(field, v1, v2) ==
  LET curV1 == IF v1.type = "string" THEN Obj([x \in {field} |-> v1]) ELSE v1
      curV2 == IF v2.type = "string" THEN Obj([x \in {field} |-> v2]) ELSE v2
  IN Get(curV1, field) = Get(curV2, field) \/ Get(curV1, field) = Get(curV2, field)

\* Joi.array().min(1)
onChangeCmdSchema(v) ==
  IF v.type = "array" /\ Len(v.val) >= 1 THEN Valid(v) ELSE Invalid

\* Joi.boolean().default(d) on the key k of o
BoolKey(o, k, d) == IF Has(o, k) THEN Get(o, k) ELSE Bool(d)

onChangeSchema(v) ==
  IF onChangeCmdSchema(v).ok THEN Valid(v)
  ELSE IF v.type = "object"
            /\ (Has(v, "command") => onChangeCmdSchema(Get(v, "command")).ok)
            /\ (Has(v, "stdout") => Get(v, "stdout").type = "boolean")
            /\ (Has(v, "stderr") => Get(v, "stderr").type = "boolean")
    THEN Valid(With(With(Strip(v, {"command", "stdout", "stderr"}),
                         "stdout", BoolKey(v, "stdout", FALSE)),
                    "stderr", BoolKey(v, "stderr", TRUE)))
    ELSE Invalid

\* Joi.string(): a string, and not the empty one
JoiString(v) == v.type = "string" /\ v.val # <<>>

\* the object alternative of an entity schema: the required string key, the
\* optional string keys, on_change; unknown keys are stripped
EntityObject(v, required, uri, optional) ==
  IF /\ v.type = "object"
     /\ Has(v, required)
     /\ JoiString(Get(v, required))
     /\ (uri => JoiUri(Get(v, required).val))
     /\ \A k \in optional : Has(v, k) => JoiString(Get(v, k))
     /\ Has(v, "on_change") => onChangeSchema(Get(v, "on_change")).ok
    THEN LET kept == Strip(v, {required, "on_change"} \cup optional) IN
         Valid(IF Has(v, "on_change")
                 THEN With(kept, "on_change", onChangeSchema(Get(v, "on_change")).value)
                 ELSE kept)
    ELSE Invalid

DataSourceSchema(v) ==
  IF JoiString(v) THEN Valid(v) ELSE EntityObject(v, "url", TRUE, {"alias"})

FileSchema(v) ==
  IF JoiString(v) THEN Valid(v) ELSE EntityObject(v, "input_path", FALSE, {"output_path"})

FilePathSchema(v) ==
  IF JoiString(v) THEN Valid(v) ELSE EntityObject(v, "path", FALSE, {})

\* the schema the entries of list key are validated against
ItemSchema(key, v) ==
  CASE key = "datasources" -> DataSourceSchema(v)
    [] key = "files" -> FileSchema(v)
    [] OTHER -> FilePathSchema(v)

\* Joi.array().items(<schema>).unique(checkUniqueField(field)).default([])
ListSchema(o, key, field) ==
  IF ~Has(o, key) THEN Valid(Arr(<<>>))
  ELSE LET v == Get(o, key) IN
       IF /\ v.type = "array"
          /\ \A i \in 1..Len(v.val) : ItemSchema(key, v.val[i]).ok
          /\ \A i, j \in 1..Len(v.val) :
               i < j => ~checkUniqueField(field, ItemSchema(key, v.val[i]).value,
                                          ItemSchema(key, v.val[j]).value)
         THEN Valid(Arr([i \in 1..Len(v.val) |-> ItemSchema(key, v.val[i]).value]))
         ELSE Invalid

ConfigItemSchema(v) ==
  IF v.type # "object" THEN Invalid
  ELSE LET deps == ListSchema(v, "dependencies", "path")
           tmpls == ListSchema(v, "templates", "path")
           srcs == ListSchema(v, "datasources", "url")
           files == ListSchema(v, "files", "input_path")
           watchOk == Has(v, "watch") => Get(v, "watch").type = "boolean"
           ocOk == Has(v, "on_change") => onChangeSchema(Get(v, "on_change")).ok
       IN IF deps.ok /\ tmpls.ok /\ srcs.ok /\ files.ok /\ watchOk /\ ocOk
            THEN LET item == Obj([watch |-> BoolKey(v, "watch", FALSE),
                                  dependencies |-> deps.value,
                                  templates |-> tmpls.value,
                                  datasources |-> srcs.value,
                                  files |-> files.value])
                 IN Valid(IF Has(v, "on_change")
                            THEN With(item, "on_change",
                                      onChangeSchema(Get(v, "on_change")).value)
                            ELSE item)
            ELSE Invalid

\* Joi.array().items(ConfigItemSchema).single(true).min(1)
ConfigSchema(data) ==
  LET items == IF data.type = "array" THEN data.val ELSE <<data>> IN
  IF Len(items) >= 1 /\ \A i \in 1..Len(items) : ConfigItemSchema(items[i]).ok
    THEN Valid([i \in 1..Len(items) |-> ConfigItemSchema(items[i]).value])
    ELSE Invalid

(***************************************************************************)
(* parseConfig: the mapping of the validated document.                     *)
(***************************************************************************)
\* Object.assign(target, source)
Assign(target, source) ==
  Obj([x \in DOMAIN target.val \cup DOMAIN source.val |->
         IF x \in DOMAIN source.val THEN source.val[x] ELSE target.val[x]])

\* lodash template(source, { interpolate }): the compiled function, held as
\* its source (undefined compiles as the empty string)
Compiled(source) ==
  [type |-> "function", val |-> IF source.type = "string" THEN source.val ELSE <<>>]

mapOnChange(v) ==
  IF v.type = "array"
    THEN Obj([command |-> v, stdout |-> Bool(FALSE), stderr |-> Bool(TRUE)])
    ELSE v

\* the shorthand unwrapped, and on_change mapped (common to the three mappers)
Unwrap(v, field) ==
  LET curV == IF v.type = "string"
                THEN Obj([x \in {field} |-> v])
                ELSE Assign(Obj([x \in {field} |-> Null]), v)
  IN IF Truthy(Get(curV, "on_change"))
       THEN With(curV, "on_change", mapOnChange(Get(curV, "on_change")))
       ELSE curV

mapDataSource(v) ==
  LET curV == Unwrap(v, "url")
      url == Get(curV, "url")
  IN IF ~UrlParses(url.val) THEN Thrown("TypeError: Invalid URL")
     ELSE IF startsWithFile(UrlProtocol(url.val))
       THEN Returned(With(With(curV, "path", Str(UrlPathname(url.val))),
                          "makeAlias", Compiled(Get(curV, "alias"))))
       ELSE Returned(curV)

mapFile(v) ==
  LET curV == Unwrap(v, "input_path") IN
  IF Truthy(Get(curV, "output_path"))
    THEN With(curV, "makeOutputPath", Compiled(Get(curV, "output_path")))
    ELSE curV

mapFilePath(v) == Unwrap(v, "path")

\* the test partition is called with: v.path != null
hasPath(v) == Get(v, "path").type \notin {"undefined", "null"}

\* lodash partition with the two groups swapped
partitionSwapped(arr) ==
  <<SelectSeq(arr, LAMBDA v : ~hasPath(v)), SelectSeq(arr, hasPath)>>

\* partition(datasources, v => v.path != null)
partition(arr) ==
  <<SelectSeq(arr, hasPath), SelectSeq(arr, LAMBDA v : ~hasPath(v))>>

\* line 279-293: the callback of value.map
MapItem(item) ==
  LET item1 == IF Truthy(Get(item, "on_change"))
                 THEN With(item, "on_change", mapOnChange(Get(item, "on_change")))
                 ELSE item
      raw == Get(item, "datasources").val
      mapped == [i \in 1..Len(raw) |-> mapDataSource(raw[i])]
  IN IF \E i \in 1..Len(raw) : mapped[i].throws # "none"
       THEN Thrown("TypeError: Invalid URL")
       ELSE LET datasources == [i \in 1..Len(raw) |-> mapped[i].ret]
                parts == partition(datasources)
                item2 == With(With(item1, "fileDataSources", Arr(parts[1])),
                              "otherDataSources", Arr(parts[2]))
                deps == Get(item, "dependencies").val
                tmpls == Get(item, "templates").val
                files == Get(item, "files").val
                item3 == With(item2, "dependencies",
                              Arr([i \in 1..Len(deps) |-> mapFilePath(deps[i])]))
                item4 == With(item3, "templates",
                              Arr([i \in 1..Len(tmpls) |-> mapFilePath(tmpls[i])]))
            IN Returned(With(item4, "files",
                             Arr([i \in 1..Len(files) |-> mapFile(files[i])])))

(***************************************************************************)
(* The inputs of parseConfig: documents as YAML.parse yields them.         *)
(***************************************************************************)
UFile == <<"file", ":", "//", "/data/x.json">>
URemote == <<"https", ":", "//", "example.com", "/y">>
USpace == <<"file", ":", "//", "/a", " ", "b">>
UFilex == <<"file", "x", ":", "//", "h", "/p">>
URel == <<"./rel.json">>

Command == Arr(<<Str(<<"reload">>)>>)

OnChangeInputs ==
  {Command,
   Arr(<<>>),
   Obj([command |-> Command]),
   Obj([command |-> Command, stdout |-> Bool(TRUE), stderr |-> Bool(FALSE)]),
   Obj([stdout |-> Bool(TRUE)])}

DataSourceInputs ==
  {Str(u) : u \in {UFile, URemote, USpace, UFilex, URel}}
    \cup {Obj([url |-> Str(u)]) : u \in {UFile, URemote, USpace, UFilex, URel}}
    \cup {Obj([url |-> Str(u), on_change |-> oc]) : u \in {UFile, URemote}, oc \in OnChangeInputs}
    \cup {Obj([url |-> Str(UFile), alias |-> Str(<<"data">>)])}

FilePathInputs ==
  {Str(<<"/a">>), Str(<<"/b">>), Obj([path |-> Str(<<"/a">>)]), Obj([path |-> Str(<<"/b">>)])}
    \cup {Obj([path |-> Str(<<"/a">>), on_change |-> oc]) : oc \in OnChangeInputs}

FileInputs ==
  {Str(<<"/in1">>), Str(<<"/in2">>),
   Obj([input_path |-> Str(<<"/in1">>)]), Obj([input_path |-> Str(<<"/in2">>)]),
   Obj([input_path |-> Str(<<"/in1">>), output_path |-> Str(<<"out-", "[name]">>)])}
    \cup {Obj([input_path |-> Str(<<"/in2">>), on_change |-> oc]) : oc \in OnChangeInputs}

\* the arrays of at most MaxList entries of S
ListsOf(S) == UNION {{Arr(l) : l \in [1..n -> S]} : n \in 0..MaxList}

\* items with one list given, and items with only an on_change of their own
ItemInputs ==
  {Obj([datasources |-> l]) : l \in ListsOf(DataSourceInputs)}
    \cup {Obj([dependencies |-> l]) : l \in ListsOf(FilePathInputs)}
    \cup {Obj([templates |-> l]) : l \in ListsOf(FilePathInputs)}
    \cup {Obj([files |-> l]) : l \in ListsOf(FileInputs)}
    \cup {Obj([on_change |-> oc]) : oc \in OnChangeInputs}

\* an item with every list given
FullItem ==
  Obj([watch |-> Bool(TRUE),
       dependencies |-> Arr(<<Str(<<"/a">>)>>),
       templates |-> Arr(<<Obj([path |-> Str(<<"/b">>)])>>),
       datasources |-> Arr(<<Str(UFile), Obj([url |-> Str(URemote)])>>),
       files |-> Arr(<<Str(<<"/in1">>)>>),
       on_change |-> Command])

\* a document: a bare item, or an array of items
DocumentInputs ==
  ItemInputs
    \cup {Arr(<<>>), FullItem}
    \cup {Arr(<<i>>) : i \in ItemInputs}
    \cup {Arr(<<i, FullItem>>) : i \in ItemInputs}

(***************************************************************************)
(* parseConfig, step by step.                                              *)
(***************************************************************************)
\* line 264-277
Validate ==
  /\ pPc = "parse"
  /\ LET res == ConfigSchema(pData) IN
     IF res.ok
       THEN /\ pValue' = res.value
            /\ pIdx' = 1
            /\ pPc' = "map"
            /\ UNCHANGED pErr
       ELSE /\ pPc' = "Failed"
            /\ pErr' = "ValidationError"
            /\ UNCHANGED <<pValue, pIdx>>
  /\ UNCHANGED <<pData, acqVars>>

\* line 279-293, for one item
MapNext ==
  /\ pPc = "map"
  /\ pIdx <= Len(pValue)
  /\ LET res == MapItem(pValue[pIdx]) IN
     IF res.throws # "none"
       THEN /\ pPc' = "Failed"
            /\ pErr' = res.throws
            /\ UNCHANGED <<pValue, pIdx>>
       ELSE /\ pValue' = [pValue EXCEPT ![pIdx] = res.ret]
            /\ pIdx' = pIdx + 1
            /\ UNCHANGED <<pPc, pErr>>
  /\ UNCHANGED <<pData, acqVars>>

\* value.map returns
Return ==
  /\ pPc = "map"
  /\ pIdx > Len(pValue)
  /\ pPc' = "Done"
  /\ UNCHANGED <<pData, pValue, pIdx, pErr, acqVars>>

InitParse ==
  /\ pPc = "parse"
  /\ pData \in DocumentInputs
  /\ pValue = <<>>
  /\ pIdx = 0
  /\ pErr = "none"
  /\ pc = "Idle"
  /\ ENV = [CONFIG_TEMPLATE_ARGS |-> Undefined, CONFIG_PATH |-> Undefined]
  /\ procEnv = Undefined
  /\ fs = [n \in FileNames |-> [code |-> "ENOENT", data |-> <<>>]]
  /\ args = <<>>
  /\ cmd = Undefined
  /\ cmdArgs = <<>>
  /\ configDeps = <<>>
  /\ curPath = <<>>
  /\ conf = Null
  /\ reads = <<>>
  /\ execs = <<>>
  /\ result = [config |-> <<>>, configDeps |-> <<>>]
  /\ err = "none"

\* parseConfig(conf) as one function of the parsed document
parseConfigOf(data) ==
  LET res == ConfigSchema(data) IN
  IF ~res.ok THEN [status |-> "rejected", value |-> <<>>]
  ELSE LET mapped == [i \in 1..Len(res.value) |-> MapItem(res.value[i])] IN
       IF \E i \in 1..Len(mapped) : mapped[i].throws # "none"
         THEN [status |-> "rejected", value |-> <<>>]
         ELSE [status |-> "accepted", value |-> [i \in 1..Len(mapped) |-> mapped[i].ret]]

NextParse ==
  \/ Validate
  \/ MapNext
  \/ Return

SpecParse == InitParse /\ [][NextParse]_vars

(***************************************************************************)
(* Properties of parseConfig.                                              *)
(***************************************************************************)
\* the items of the document given, a bare item counting as one
RawItems == IF pData.type = "array" THEN pData.val ELSE <<pData>>

\* the lists of an item, each with the field that identifies its entries
ListFields ==
  {<<"dependencies", "path">>, <<"templates", "path">>,
   <<"datasources", "url">>, <<"files", "input_path">>}

\* the entries of list key of item, none when the item gives no such list
EntriesOf(item, key) ==
  IF item.type = "object" /\ Has(item, key) /\ Get(item, key).type = "array"
    THEN Get(item, key).val
    ELSE <<>>

\* the identifying value of an entry: the bare string itself, or the field
IdOf(e, field) ==
  IF e.type = "string" THEN e
  ELSE IF e.type = "object" THEN Get(e, field)
  ELSE Undefined

\* two entries of list key of item have the same identifying value
Duplicated(item, key, field) ==
  LET l == EntriesOf(item, key) IN
  \E a, b \in 1..Len(l) :
    /\ a < b
    /\ IdOf(l[a], field) # Undefined
    /\ IdOf(l[a], field) = IdOf(l[b], field)

\* validation accepted the document
Accepted == pPc \in {"map", "Done"} \/ (pPc = "Failed" /\ pErr # "ValidationError")
Rejected == pPc = "Failed" /\ pErr = "ValidationError"

\* C6: a document validation accepts has, in each item, dependencies and
\* templates unique by path, datasources by url and files by input_path, a
\* bare string counting as its identifying field; a document with two entries
\* of equal identifying value in one list is rejected, whatever their forms.
C6_UniqueByField ==
  /\ Accepted =>
       \A i \in 1..Len(pValue), kf \in ListFields :
         /\ ~Duplicated(pValue[i], kf[1], kf[2])
         /\ ~Duplicated(RawItems[i], kf[1], kf[2])
  /\ (pPc # "parse"
        /\ \E i \in 1..Len(RawItems), kf \in ListFields :
             Duplicated(RawItems[i], kf[1], kf[2])) => Rejected

\* the same url once as a string and once as { url }, rejected
C6_Witness ==
  /\ pData = Obj([datasources |-> Arr(<<Str(UFile), Obj([url |-> Str(UFile)])>>)])
  /\ Rejected

\* the urls of a list of data sources, in order
UrlsOf(l) == [j \in 1..Len(l) |-> IdOf(l[j], "url")]

SchemeIsFile(u) == UrlProtocol(u.val) = <<"file", ":">>
SchemeStartsWithFile(u) == UrlProtocol(u.val)[1] = "file"

\* the partition of a mapped item is that of its datasources by their
\* scheme: exactly file, or with the prefix file
PartitionedBy(item, exact) ==
  LET IsFile(u) == IF exact THEN SchemeIsFile(u) ELSE SchemeStartsWithFile(u)
      urls == UrlsOf(EntriesOf(item, "datasources"))
      file == EntriesOf(item, "fileDataSources")
      other == EntriesOf(item, "otherDataSources")
  IN /\ UrlsOf(file) = SelectSeq(urls, IsFile)
     /\ UrlsOf(other) = SelectSeq(urls, LAMBDA u : ~IsFile(u))
     /\ Range(file) \cap Range(other) = {}
     /\ Len(file) + Len(other) = Len(urls)
     /\ \A k \in 1..Len(file) : Get(file[k], "path") = Str(UrlPathname(Get(file[k], "url").val))
     /\ \A k \in 1..Len(other) : ~Has(other[k], "path")

Canonical(oc) ==
  /\ oc.type = "object"
  /\ Has(oc, "command")
  /\ Get(oc, "command").type = "array"
  /\ Len(Get(oc, "command").val) >= 1
  /\ Get(oc, "stdout").type = "boolean"
  /\ Get(oc, "stderr").type = "boolean"

\* the on_change returned for the on_change given: canonical, with the
\* defaults where the input gave no value
CanonicalFor(given, oc) ==
  /\ Canonical(oc)
  /\ given.type = "array" =>
       /\ Get(oc, "command") = given
       /\ Get(oc, "stdout") = Bool(FALSE)
       /\ Get(oc, "stderr") = Bool(TRUE)
  /\ (given.type = "object" /\ ~Has(given, "stdout")) => Get(oc, "stdout") = Bool(FALSE)
  /\ (given.type = "object" /\ ~Has(given, "stderr")) => Get(oc, "stderr") = Bool(TRUE)

\* C8: every on_change of the document returned (of an item, a data source,
\* a file, a dependency, a template) is canonical: a command of length >= 1, a
\* boolean stdout and stderr, false and true where the input gave none;
\* for a bare array given and for an object given.
C8_OnChangeCanonical ==
  pPc = "Done" =>
    \A i \in 1..Len(pValue) :
      /\ Has(pValue[i], "on_change") =>
           CanonicalFor(Get(RawItems[i], "on_change"), Get(pValue[i], "on_change"))
      /\ \A key \in {"dependencies", "templates", "files"} :
           \A j \in 1..Len(EntriesOf(pValue[i], key)) :
             Has(EntriesOf(pValue[i], key)[j], "on_change") =>
               CanonicalFor(Get(EntriesOf(RawItems[i], key)[j], "on_change"),
                            Get(EntriesOf(pValue[i], key)[j], "on_change"))
      /\ \A key \in {"fileDataSources", "otherDataSources"} :
           \A j \in 1..Len(EntriesOf(pValue[i], key)) :
             Has(EntriesOf(pValue[i], key)[j], "on_change") =>
               Canonical(Get(EntriesOf(pValue[i], key)[j], "on_change"))

\* the document with entry j of list key of item i, a bare string, written as
\* the one-field object { field: string }
Expanded(i, key, field, j) ==
  LET item == RawItems[i]
      l == EntriesOf(item, key)
      item2 == With(item, key,
                    Arr([l EXCEPT ![j] = Obj([x \in {field} |-> l[j]])]))
  IN IF pData.type = "array"
       THEN Arr([pData.val EXCEPT ![i] = item2])
       ELSE item2

\* the canonical entities of a returned document
CanonicalEntities(value) ==
  [i \in 1..Len(value) |->
     [key \in {"dependencies", "templates", "files", "fileDataSources",
               "otherDataSources"} |-> EntriesOf(value[i], key)]]

\* two outcomes of parseConfig agree
SameOutcome(o1, o2) ==
  /\ o1.status = o2.status
  /\ o1.status = "accepted" => CanonicalEntities(o1.value) = CanonicalEntities(o2.value)

\* C9: a document that gives an entity as the bare string s and the same
\* document giving it as { path: s }, { url: s } or { input_path: s } are
\* both rejected, or both accepted with value-equal canonical entities.
C9_ShorthandEquivalent ==
  pPc \in {"Done", "Failed"} =>
    \A i \in 1..Len(RawItems), kf \in ListFields :
      \A j \in 1..Len(EntriesOf(RawItems[i], kf[1])) :
        EntriesOf(RawItems[i], kf[1])[j].type = "string" =>
          SameOutcome([status |-> IF pPc = "Done" THEN "accepted" ELSE "rejected",
                       value |-> IF pPc = "Done" THEN pValue ELSE <<>>],
                      parseConfigOf(Expanded(i, kf[1], kf[2], j)))

====
